---- MODULE Spec2Model ----
(***************************************************************************)
(* Informed RRT* planner (PathPlanning/InformedRRTStar/informed_rrt_star.py)*)
(*                                                                         *)
(* Arithmetic.  Positions are integer lattice points, so every squared     *)
(* distance the code computes is an exact integer.  Costs, path lengths,   *)
(* cBest and cMin are binary64 floats as in the code: math.sqrt is the     *)
(* correctly rounded square root and + is the float addition (round to     *)
(* nearest, ties to even), so that a sum of lengths can differ in the last *)
(* bit from the length of the straight line.  Tests of the form "squared   *)
(* distance <= 1.1 * size^2" on the intermediate points of a segment are   *)
(* decided exactly over the reals (LeqSqrt).                                *)
(*                                                                         *)
(* Indices are Python's: node_list[k] of the code is Nd(nl, k), the        *)
(* (k+1)-th element of the TLA+ sequence; None is the value None below.    *)
(*                                                                         *)
(* Samples.  The random draws are restricted to lattice points whose       *)
(* steering direction from their nearest node is parallel to an axis, so   *)
(* that the steered node is again a lattice point.                         *)
(***************************************************************************)
EXTENDS Integers, Sequences, FiniteSets, TLC

VARIABLES start, goal, min_rand, max_rand, expand_dis, goal_sample_rate,
          max_iter, obstacle_list, node_list,
          cBest, pathLen, solutionSet, path, i,
          newNode, nearInds, pc, error

vars == <<start, goal, min_rand, max_rand, expand_dis, goal_sample_rate,
          max_iter, obstacle_list, node_list,
          cBest, pathLen, solutionSet, path, i,
          newNode, nearInds, pc, error>>

config == <<start, goal, min_rand, max_rand, expand_dis, goal_sample_rate,
            max_iter, obstacle_list>>

(* ---------------------------- bounds ---------------------------------- *)

MaxIter == 6

MaxRand == 4

(* --------------------------- constants -------------------------------- *)

None == -1

DefaultGoalSampleRate == 10

(* floor(50^2 * ln(n) / n) for n = 1, 2, ...: the square of the radius of  *)
(* find_near_nodes, rounded down (squared distances are integers here).    *)
NearRadiusSq ==
  <<0, 866, 915, 866, 804, 746, 694, 649, 610, 575, 544, 517, 493, 471,
    451, 433, 416, 401, 387, 374>>

(* ------------------- binary64 floating point --------------------------- *)

(* A float f that is 0 or in [1, 64) is the pair <<h, l>> of naturals with *)
(* f * 2^52 = h * Limb + l and l < Limb: the exact integer f * 2^52 in two *)
(* digits of 28 bits.                                                       *)
Limb == 256 * 1024 * 1024

Norm(h, l) == <<h + (l \div Limb), l % Limb>>

Zero == <<0, 0>>

(* float('inf'): above every finite value in the order below *)
Inf == <<4 * Limb, 0>>

(* float(n) for a small natural n *)
Float(n) == <<n * (Limb \div 16), 0>>

FLess(a, b) == a[1] < b[1] \/ (a[1] = b[1] /\ a[2] < b[2])

FLeq(a, b) == ~FLess(b, a)

FSub(a, b) == Norm(a[1] - b[1], a[2] - b[2])

FTimes(c, a) == Norm(c * a[1], c * a[2])

(* 2^s for the number s of bits that h * Limb + l has beyond 53 *)
Ulp(h) ==
  IF h < Limb \div 8 THEN 1
  ELSE IF h < Limb \div 4 THEN 2
  ELSE IF h < Limb \div 2 THEN 4
  ELSE IF h < Limb THEN 8
  ELSE IF h < 2 * Limb THEN 16
  ELSE 32

(* rounding of an exact value to 53 significant bits, to nearest, ties to  *)
(* even                                                                     *)
Round53(a) ==
  LET q    == Ulp(a[1])
      rem  == a[2] % q
      base == a[2] - rem
      up   == 2 * rem > q \/ (2 * rem = q /\ (base \div q) % 2 = 1)
  IN  IF rem = 0 THEN a
      ELSE IF up THEN Norm(a[1], base + q) ELSE <<a[1], base>>

(* the float addition a + b *)
FAdd(a, b) == Round53(Norm(a[1] + b[1], a[2] + b[2]))

FMin(S) == CHOOSE m \in S : \A n \in S : FLeq(m, n)

(* ------------------------- arithmetic --------------------------------- *)

Abs(a) == IF a < 0 THEN -a ELSE a

Sq(a) == a * a

(* j more bits of the binary expansion of a square root, from the root r   *)
(* and the remainder rem found so far                                       *)
RECURSIVE SqrtBits(_, _, _)
SqrtBits(r, rem, j) ==
  IF j = 0 THEN r
  ELSE LET rem4  == FTimes(4, rem)
           trial == Norm(4 * r[1], 4 * r[2] + 1)
       IN  IF FLeq(trial, rem4)
           THEN SqrtBits(Norm(2 * r[1], 2 * r[2] + 1), FSub(rem4, trial), j - 1)
           ELSE SqrtBits(FTimes(2, r), rem4, j - 1)

Shift(a, k) == FTimes(2^k, a)

(* the float nearest to sqrt(D): 54 bits of the root, rounded to 53 *)
SqrtOf(D) ==
  IF D = 0 THEN Zero
  ELSE LET r0  == CHOOSE r \in 0..D : r * r <= D /\ (r + 1) * (r + 1) > D
           k   == CHOOSE k \in 0..15 : 2^k <= r0 /\ r0 < 2^(k + 1)
           r54 == SqrtBits(<<0, r0>>, <<0, D - r0 * r0>>, 53 - k)
           n53 == Norm(r54[1] \div 2,
                       (r54[1] % 2) * (Limb \div 2) + (r54[2] + 1) \div 2)
       IN  Shift(n53, k)

(* the squared distances that can occur between points of the model *)
SqrtTable == [D \in 0..(2 * (MaxRand + 6) * (MaxRand + 6)) |-> SqrtOf(D)]

(* math.sqrt on an integer argument *)
Sqrt(D) == SqrtTable[D]

(* B <= A * sqrt(V), for integers A, B and V > 0, decided exactly *)
LeqSqrt(B, A, V) ==
  IF A >= 0
  THEN IF B <= 0 THEN TRUE ELSE B * B <= A * A * V
  ELSE IF B >= 0 THEN FALSE ELSE B * B >= A * A * V

(* ------------------------------ Node ----------------------------------- *)

Node(x, y) == [x |-> x, y |-> y, cost |-> Zero, parent |-> None]

Nd(nl, k) == nl[k + 1]

Dist2(a, b) == Sq(a.x - b.x) + Sq(a.y - b.y)

line_cost(node1, node2) == Sqrt(Dist2(node1, node2))

(* math.atan2(dy, dx) as a direction vector; atan2(0, 0) is the angle 0 *)
atan2(dy, dx) == IF dx = 0 /\ dy = 0 THEN <<1, 0>> ELSE <<dx, dy>>

(* ------------------------ collision checker ---------------------------- *)

(* point test against the obstacle disks without the 10% margin *)
collision_check_NoMargin(nd, obstacleList) ==
  \A o \in 1..Len(obstacleList) :
     ~(Sq(obstacleList[o].x - nd.x) + Sq(obstacleList[o].y - nd.y)
         <= Sq(obstacleList[o].size))

collision_check(nd, obstacleList) ==
  \A o \in 1..Len(obstacleList) :
     ~(10 * (Sq(obstacleList[o].x - nd.x) + Sq(obstacleList[o].y - nd.y))
         <= 11 * Sq(obstacleList[o].size))

(* number of iterations of "for i in range(int(d / expand_dis))", d*d = D  *)
NumSteps(D, e) ==
  IF e < 0 THEN 0
  ELSE CHOOSE k \in 0..D : Sq(k * e) <= D /\ Sq((k + 1) * e) > D

(* the k-th intermediate point, nearNode + k*e*(cos theta, sin theta), is   *)
(* safe (collision_check is True) for the obstacle list                     *)
StepSafe(nearNode, theta, k, e, obstacleList) ==
  \A o \in 1..Len(obstacleList) :
     LET ob == obstacleList[o]
         V  == Sq(theta[1]) + Sq(theta[2])
         A  == 11 * Sq(ob.size)
                 - 10 * (Sq(nearNode.x - ob.x) + Sq(nearNode.y - ob.y) + Sq(k * e))
         B  == 20 * k * e * ((nearNode.x - ob.x) * theta[1]
                             + (nearNode.y - ob.y) * theta[2])
     IN  ~LeqSqrt(B, A, V)

(* segment check that also tests the point one step past the last one *)
check_collision_extend_OneMore(nearNode, theta, D, e, obstacleList) ==
  \A k \in 1..(NumSteps(D, e) + 1) :
     StepSafe(nearNode, theta, k, e, obstacleList)

(* check_collision_extend(nearNode, theta, d) with d*d = D and e # 0 *)
check_collision_extend(nearNode, theta, D, e, obstacleList) ==
  \A k \in 1..NumSteps(D, e) : StepSafe(nearNode, theta, k, e, obstacleList)

(* ------------------------- pure functions ------------------------------ *)

Min(S) == CHOOSE m \in S : \A n \in S : m <= n

Range(f) == {f[k] : k \in DOMAIN f}

(* list.index(v): position of the first element equal to v (from 1) *)
FirstIndex(l, v) == Min({k \in 1..Len(l) : l[k] = v})

get_nearest_list_index(nodes, rnd) ==
  LET dList == [k \in 1..Len(nodes) |->
                  Sq(nodes[k].x - rnd[1]) + Sq(nodes[k].y - rnd[2])]
  IN  FirstIndex(dList, Min(Range(dList))) - 1

Sgn(a) == IF a > 0 THEN 1 ELSE IF a < 0 THEN -1 ELSE 0

(* cos and sin of a direction parallel to an axis *)
Cos(theta) == IF theta[2] = 0 THEN Sgn(theta[1]) ELSE 0

Sin(theta) == IF theta[1] = 0 THEN Sgn(theta[2]) ELSE 0

AxisParallel(theta) == theta[1] = 0 \/ theta[2] = 0

(* steering that stores the parent handle off by one *)
get_new_node_OffByOne(theta, nind, nearestNode, e) ==
  [x      |-> nearestNode.x + e * Cos(theta),
   y      |-> nearestNode.y + e * Sin(theta),
   cost   |-> FAdd(nearestNode.cost, Float(e)),
   parent |-> nind + 1]

(* steering that copies the cost of the nearest node without the step *)
get_new_node_NoStepCost(theta, nind, nearestNode, e) ==
  [x      |-> nearestNode.x + e * Cos(theta),
   y      |-> nearestNode.y + e * Sin(theta),
   cost   |-> nearestNode.cost,
   parent |-> nind]

get_new_node(theta, nind, nearestNode, e) ==
  [x      |-> nearestNode.x + e * Cos(theta),
   y      |-> nearestNode.y + e * Sin(theta),
   cost   |-> FAdd(nearestNode.cost, Float(e)),
   parent |-> nind]

(* goal test accepting nodes within two step lengths *)
is_near_goal_TwoSteps(nd, g, e) == e > 0 /\ Dist2(nd, g) < 4 * e * e

is_near_goal(nd, g, e) == e > 0 /\ Dist2(nd, g) < e * e

find_near_nodes(nl, nNode) ==
  LET nnode == Len(nl)
      r2    == NearRadiusSq[nnode]
      dlist == [k \in 1..nnode |-> Dist2(nl[k], nNode)]
      sel   == SelectSeq([k \in 1..nnode |-> k], LAMBDA k : dlist[k] <= r2)
  IN  [t \in 1..Len(sel) |-> FirstIndex(dlist, dlist[sel[t]]) - 1]

(* parent selection that takes the last of several cheapest candidates *)
choose_parent_LastOnTies(nl, nNode, nInds, e, obstacleList) ==
  IF Len(nInds) = 0 THEN nNode
  ELSE LET dList == [t \in 1..Len(nInds) |->
                       LET near  == Nd(nl, nInds[t])
                           dx    == nNode.x - near.x
                           dy    == nNode.y - near.y
                           theta == atan2(dy, dx)
                       IN  IF check_collision_extend(near, theta,
                                    Sq(dx) + Sq(dy), e, obstacleList)
                           THEN FAdd(near.cost, Sqrt(Sq(dx) + Sq(dy)))
                           ELSE Inf]
           minCost == FMin(Range(dList))
           minInd  == nInds[-Min({-t : t \in {u \in 1..Len(nInds) :
                                                dList[u] = minCost}})]
       IN  IF minCost = Inf THEN nNode
           ELSE [nNode EXCEPT !.cost = minCost, !.parent = minInd]

choose_parent(nl, nNode, nInds, e, obstacleList) ==
  IF Len(nInds) = 0 THEN nNode
  ELSE LET dList == [t \in 1..Len(nInds) |->
                       LET near  == Nd(nl, nInds[t])
                           dx    == nNode.x - near.x
                           dy    == nNode.y - near.y
                           theta == atan2(dy, dx)
                       IN  IF check_collision_extend(near, theta,
                                    Sq(dx) + Sq(dy), e, obstacleList)
                           THEN FAdd(near.cost, Sqrt(Sq(dx) + Sq(dy)))
                           ELSE Inf]
           minCost == FMin(Range(dList))
           minInd  == nInds[FirstIndex(dList, minCost)]
       IN  IF minCost = Inf THEN nNode
           ELSE [nNode EXCEPT !.cost = minCost, !.parent = minInd]

(* rewire storing the cost of the new node without the connecting edge *)
RewireOne_NoEdge(nl, ind, e, obstacleList) ==
  LET n_node   == Len(nl)
      nNode    == Nd(nl, n_node - 1)
      nearNode == Nd(nl, ind)
      D        == Dist2(nearNode, nNode)
      scost    == FAdd(nNode.cost, Sqrt(D))
      theta    == atan2(nNode.y - nearNode.y, nNode.x - nearNode.x)
  IN  IF FLess(scost, nearNode.cost)
         /\ check_collision_extend(nearNode, theta, D, e, obstacleList)
      THEN [nl EXCEPT ![ind + 1] =
               [@ EXCEPT !.parent = n_node - 1, !.cost = nNode.cost]]
      ELSE nl

(* rewire without the cost comparison *)
RewireOne_NoCostTest(nl, ind, e, obstacleList) ==
  LET n_node   == Len(nl)
      nNode    == Nd(nl, n_node - 1)
      nearNode == Nd(nl, ind)
      D        == Dist2(nearNode, nNode)
      scost    == FAdd(nNode.cost, Sqrt(D))
      theta    == atan2(nNode.y - nearNode.y, nNode.x - nearNode.x)
  IN  IF check_collision_extend(nearNode, theta, D, e, obstacleList)
      THEN [nl EXCEPT ![ind + 1] =
               [@ EXCEPT !.parent = n_node - 1, !.cost = scost]]
      ELSE nl

(* rewire with the cost comparison reversed *)
RewireOne_Reversed(nl, ind, e, obstacleList) ==
  LET n_node   == Len(nl)
      nNode    == Nd(nl, n_node - 1)
      nearNode == Nd(nl, ind)
      D        == Dist2(nearNode, nNode)
      scost    == FAdd(nNode.cost, Sqrt(D))
      theta    == atan2(nNode.y - nearNode.y, nNode.x - nearNode.x)
  IN  IF FLess(nearNode.cost, scost)
         /\ check_collision_extend(nearNode, theta, D, e, obstacleList)
      THEN [nl EXCEPT ![ind + 1] =
               [@ EXCEPT !.parent = n_node - 1, !.cost = scost]]
      ELSE nl

(* rewire with a non-strict cost comparison *)
RewireOne_NonStrict(nl, ind, e, obstacleList) ==
  LET n_node   == Len(nl)
      nNode    == Nd(nl, n_node - 1)
      nearNode == Nd(nl, ind)
      D        == Dist2(nearNode, nNode)
      scost    == FAdd(nNode.cost, Sqrt(D))
      theta    == atan2(nNode.y - nearNode.y, nNode.x - nearNode.x)
  IN  IF FLeq(scost, nearNode.cost)
         /\ check_collision_extend(nearNode, theta, D, e, obstacleList)
      THEN [nl EXCEPT ![ind + 1] =
               [@ EXCEPT !.parent = n_node - 1, !.cost = scost]]
      ELSE nl

(* rewire without the segment check *)
RewireOne_NoSegmentCheck(nl, ind, e, obstacleList) ==
  LET n_node   == Len(nl)
      nNode    == Nd(nl, n_node - 1)
      nearNode == Nd(nl, ind)
      D        == Dist2(nearNode, nNode)
      scost    == FAdd(nNode.cost, Sqrt(D))
  IN  IF FLess(scost, nearNode.cost)
      THEN [nl EXCEPT ![ind + 1] =
               [@ EXCEPT !.parent = n_node - 1, !.cost = scost]]
      ELSE nl

(* one pass of the body of rewire's loop, for the near index ind *)
RewireOne(nl, ind, e, obstacleList) ==
  LET n_node   == Len(nl)
      nNode    == Nd(nl, n_node - 1)
      nearNode == Nd(nl, ind)
      D        == Dist2(nearNode, nNode)
      scost    == FAdd(nNode.cost, Sqrt(D))
      theta    == atan2(nNode.y - nearNode.y, nNode.x - nearNode.x)
  IN  IF FLess(scost, nearNode.cost)
         /\ check_collision_extend(nearNode, theta, D, e, obstacleList)
      THEN [nl EXCEPT ![ind + 1] =
               [@ EXCEPT !.parent = n_node - 1, !.cost = scost]]
      ELSE nl

(* rewire that also recomputes the cost of the children of a reassigned   *)
(* node                                                                     *)
RECURSIVE rewire_UpdatesChildren(_, _, _, _)
rewire_UpdatesChildren(nl, nInds, e, obstacleList) ==
  IF Len(nInds) = 0 THEN nl
  ELSE LET k == Head(nInds)
           r == RewireOne(nl, k, e, obstacleList)
           u == [c \in 1..Len(r) |->
                   IF r[c].parent = k /\ r[k + 1] # nl[k + 1]
                   THEN [r[c] EXCEPT !.cost =
                           FAdd(r[k + 1].cost, Sqrt(Dist2(r[c], r[k + 1])))]
                   ELSE r[c]]
       IN  rewire_UpdatesChildren(u, Tail(nInds), e, obstacleList)

RECURSIVE rewire(_, _, _, _)
rewire(nl, nInds, e, obstacleList) ==
  IF Len(nInds) = 0 THEN nl
  ELSE rewire(RewireOne(nl, Head(nInds), e, obstacleList),
              Tail(nInds), e, obstacleList)

(* the while loop of get_final_course leaves within fuel hops *)
RECURSIVE WalkEnds(_, _, _)
WalkEnds(nl, lastIndex, fuel) ==
  IF Nd(nl, lastIndex).parent = None THEN TRUE
  ELSE IF fuel = 0 THEN FALSE
  ELSE WalkEnds(nl, Nd(nl, lastIndex).parent, fuel - 1)

(* a walk that starts at the parent of the terminal node *)
Walk_SkipsTerminal(nl, lastIndex) ==
  LET Step[k \in {None} \cup (0..(Len(nl) - 1))] ==
        IF k = None \/ nl[k + 1].parent = None THEN <<>>
        ELSE << <<nl[k + 1].x, nl[k + 1].y>> >> \o Step[nl[k + 1].parent]
  IN  Step[Nd(nl, lastIndex).parent]

RECURSIVE Walk(_, _)
Walk(nl, lastIndex) ==
  IF Nd(nl, lastIndex).parent = None THEN <<>>
  ELSE <<  <<Nd(nl, lastIndex).x, Nd(nl, lastIndex).y>>  >>
         \o Walk(nl, Nd(nl, lastIndex).parent)

get_final_course(nl, lastIndex, s, g) ==
  << <<g.x, g.y>> >> \o Walk(nl, lastIndex) \o << <<s.x, s.y>> >>

RECURSIVE get_path_len(_)
get_path_len(p) ==
  IF Len(p) <= 1 THEN Zero
  ELSE FAdd(get_path_len(SubSeq(p, 1, Len(p) - 1)),
            Sqrt(Sq(p[Len(p)][1] - p[Len(p) - 1][1])
                 + Sq(p[Len(p)][2] - p[Len(p) - 1][2])))

(* ------------------------------ Sampler -------------------------------- *)

Between(a, b) == IF a <= b THEN a..b ELSE b..a

(* sample_free_space for the integer draw and the two uniform draws *)
sample_free_space(draw, ux, uy, rate, g) ==
  IF draw > rate THEN <<ux, uy>> ELSE <<g.x, g.y>>

(* the equally likely outcomes of random.randint(0, 100) *)
IntegerDraws == 0..100

FreeSamples(lo, hi, rate, g) ==
  {sample_free_space(draw, ux, uy, rate, g) :
     draw \in IntegerDraws, ux \in Between(lo, hi), uy \in Between(lo, hi)}

(* lattice points around the sampling rectangle, start and goal *)
Lattice(lo, hi, s, g, e) ==
  LET low  == Min({lo, hi, s.x, s.y, g.x, g.y}) - Abs(e)
      high == -Min({-lo, -hi, -s.x, -s.y, -g.x, -g.y}) + Abs(e)
  IN  {<<x, y>> : x \in low..high, y \in low..high}

(* image of the unit disk under C * diag(r) + xCenter: the ellipse with    *)
(* foci start and goal and major axis cMax, or, when cMax = cMin, the      *)
(* segment between start and goal. The draws of sample_unit_ball are below *)
(* 1, and the float product and sum round the points next to the boundary  *)
(* onto it (6.5 + 1.5 * 0.9999999999999999 is 8.0), so the boundary and    *)
(* the end points of the segment are samples as well.                      *)
InEllipse(pt, cMax, cMin, s, g) ==
  LET ds == Sq(pt[1] - s.x) + Sq(pt[2] - s.y)
      dg == Sq(pt[1] - g.x) + Sq(pt[2] - g.y)
  IN  IF FLess(cMin, cMax)
      THEN FLeq(FAdd(Sqrt(ds), Sqrt(dg)), cMax)
      ELSE /\ (pt[1] - s.x) * (g.y - s.y) = (pt[2] - s.y) * (g.x - s.x)
           /\ ds <= Dist2(s, g) /\ dg <= Dist2(s, g)

(* math.sqrt(cMax ** 2 - cMin ** 2) of line 141 raises ValueError: the    *)
(* float squares of two floats are ordered as the floats are, so the       *)
(* difference is negative exactly when cMax < cMin                          *)
SqrtDomainError(cMax, cMin) == FLess(cMax, Inf) /\ FLess(cMax, cMin)

(* the outcomes of random.random() sample_unit_ball tells apart: 0.0 and   *)
(* the positive values below 1                                              *)
UnitDraws == {"zero", "positive"}

(* lines 154-162: after the swap b is the larger draw, and a / b raises    *)
(* ZeroDivisionError when it is 0.0, that is when both draws are           *)
sample_unit_ball(a, b) ==
  IF a = "zero" /\ b = "zero" THEN "ZeroDivisionError" ELSE "sample"

informed_sample(cMax, cMin, lo, hi, rate, s, g, e) ==
  IF FLess(cMax, Inf)
  THEN {pt \in Lattice(lo, hi, s, g, e) : InEllipse(pt, cMax, cMin, s, g)}
  ELSE FreeSamples(lo, hi, rate, g)

(* --------------------------- configurations ---------------------------- *)

Obstacle(ox, oy, size) == [x |-> ox, y |-> oy, size |-> size]

(* arguments of InformedRRTStar(start, goal, obstacleList, randArea,       *)
(* expandDis, goalSampleRate, maxIter) the runs are explored for           *)
Config(s, g, obs, area, e, rate, n) ==
  [start |-> s, goal |-> g, obstacleList |-> obs, randArea |-> area,
   expandDis |-> e, goalSampleRate |-> rate, maxIter |-> n]

(* The explored runs keep every coordinate at 4 or more, also for the     *)
(* informed samples, which reach expand_dis beyond the rectangle: there    *)
(* the float noise of expand_dis * cos(pi/2) and expand_dis * sin(pi) is   *)
(* absorbed by the addition, and the node positions of the code are exact  *)
(* integers.                                                                *)
Configs ==
  { Config(<<6, 6>>, <<9, 9>>,
           << Obstacle(7, 7, 1), Obstacle(7, 9, 1), Obstacle(11, 9, 1) >>,
           <<6, 6 + MaxRand>>, 2, DefaultGoalSampleRate, MaxIter),
    Config(<<6, 6>>, <<6, 6>>, << >>, <<6, 6 + MaxRand>>,
           2, DefaultGoalSampleRate, 1),
    Config(<<6, 6>>, <<9, 7>>, << >>, <<6, 6 + MaxRand>>,
           0, DefaultGoalSampleRate, 1),
    Config(<<6, 6>>, <<7, 6>>, << >>, <<6 + MaxRand, 6>>,
           2, 100, 2),
    Config(<<6, 6>>, <<10, 6>>, << Obstacle(10, 11, 4) >>, <<6, 6 + MaxRand>>,
           2, DefaultGoalSampleRate, 3),
    Config(<<7, 7>>, <<11, 11>>, << >>, <<7, 7 + MaxRand>>,
           3, DefaultGoalSampleRate, 4) }

(* what section 7 of the specification calls a valid configuration *)
ValidConfig ==
  /\ <<start.x, start.y>> # <<goal.x, goal.y>>
  /\ expand_dis > 0
  /\ min_rand < max_rand

(* ------------------------------ actions -------------------------------- *)

(* __init__: the state after construction *)
Init ==
  \E c \in Configs :
    /\ start = Node(c.start[1], c.start[2])
    /\ goal = Node(c.goal[1], c.goal[2])
    /\ min_rand = c.randArea[1]
    /\ max_rand = c.randArea[2]
    /\ expand_dis = c.expandDis
    /\ goal_sample_rate = c.goalSampleRate
    /\ max_iter = c.maxIter
    /\ obstacle_list = c.obstacleList
    /\ node_list = << >>
    /\ cBest = Inf
    /\ pathLen = Inf
    /\ solutionSet = {}
    /\ path = << >>
    /\ i = 0
    /\ newNode = Node(0, 0)
    /\ nearInds = << >>
    /\ pc = "constructed"
    /\ error = "none"

cMin == Sqrt(Dist2(start, goal))

(* informed_rrt_star_search up to the loop: lines 40-61 *)
SearchStart ==
  /\ pc = "constructed"
  /\ node_list' = << start >>
  /\ cBest' = Inf
  /\ pathLen' = Inf
  /\ solutionSet' = {}
  /\ path' = << >>
  /\ IF cMin = Zero
     THEN pc' = "raised" /\ error' = "ZeroDivisionError"
     ELSE pc' = "loop" /\ error' = error
  /\ i' = 0
  /\ UNCHANGED <<config, newNode, nearInds>>

(* the samples whose steered node is a lattice point *)
Steerable(rnd) ==
  LET nearestNode == Nd(node_list, get_nearest_list_index(node_list, rnd))
  IN  AxisParallel(atan2(rnd[2] - nearestNode.y, rnd[1] - nearestNode.x))

(* an iteration that inserts the steered node without the test of line 80 *)
Extend_NoValidation ==
  /\ pc = "loop"
  /\ i < max_iter
  /\ ~SqrtDomainError(cBest, cMin)
  /\ \E rnd \in informed_sample(cBest, cMin, min_rand, max_rand,
                               goal_sample_rate, start, goal, expand_dis) :
       /\ Steerable(rnd)
       /\ LET nind        == get_nearest_list_index(node_list, rnd)
              nearestNode == Nd(node_list, nind)
              theta       == atan2(rnd[2] - nearestNode.y, rnd[1] - nearestNode.x)
          IN  newNode' = get_new_node(theta, nind, nearestNode, expand_dis)
  /\ IF expand_dis = 0
     THEN pc' = "raised" /\ error' = "ZeroDivisionError"
     ELSE pc' = "insert" /\ error' = error
  /\ UNCHANGED <<config, node_list, cBest, pathLen, solutionSet, path,
                 nearInds, i>>

(* one iteration up to the test of line 80: sample, nearest, steer,        *)
(* validate; the local newNode holds the steered node also when the test   *)
(* rejects it                                                               *)
Extend ==
  /\ pc = "loop"
  /\ i < max_iter
  /\ IF SqrtDomainError(cBest, cMin)
     THEN /\ pc' = "raised"
          /\ error' = "ValueError"
          /\ UNCHANGED <<newNode, i>>
     ELSE
     \/ /\ FLess(cBest, Inf)
        /\ \E a, b \in UnitDraws : sample_unit_ball(a, b) = "ZeroDivisionError"
        /\ pc' = "raised"
        /\ error' = "ZeroDivisionError"
        /\ UNCHANGED <<newNode, i>>
     \/ \E rnd \in informed_sample(cBest, cMin, min_rand, max_rand,
                                  goal_sample_rate, start, goal, expand_dis) :
          /\ Steerable(rnd)
          /\ LET nind        == get_nearest_list_index(node_list, rnd)
                 nearestNode == Nd(node_list, nind)
                 theta       == atan2(rnd[2] - nearestNode.y, rnd[1] - nearestNode.x)
                 nNode       == get_new_node(theta, nind, nearestNode, expand_dis)
                 D           == Dist2(nearestNode, nNode)
                 isCollision == collision_check(nNode, obstacle_list)
             IN  /\ newNode' = nNode
                 /\ IF expand_dis = 0
                    THEN /\ pc' = "raised"
                         /\ error' = "ZeroDivisionError"
                         /\ i' = i
                    ELSE /\ error' = error
                         /\ IF isCollision
                               /\ check_collision_extend(nearestNode, theta, D,
                                                         expand_dis, obstacle_list)
                            THEN pc' = "insert" /\ i' = i
                            ELSE pc' = "loop" /\ i' = i + 1
  /\ UNCHANGED <<config, node_list, cBest, pathLen, solutionSet, path, nearInds>>

(* lines 81-84: find_near_nodes, choose_parent, append *)
Insert ==
  /\ pc = "insert"
  /\ LET nInds == find_near_nodes(node_list, newNode)
         nNode == choose_parent(node_list, newNode, nInds, expand_dis,
                                obstacle_list)
     IN  /\ nearInds' = nInds
         /\ newNode' = nNode
         /\ node_list' = Append(node_list, nNode)
  /\ pc' = "rewire"
  /\ UNCHANGED <<config, cBest, pathLen, solutionSet, path, i, error>>

(* line 85: rewire *)
Rewire ==
  /\ pc = "rewire"
  /\ node_list' = rewire(node_list, nearInds, expand_dis, obstacle_list)
  /\ pc' = "goal"
  /\ UNCHANGED <<config, cBest, pathLen, solutionSet, path, i, newNode,
                 nearInds, error>>

(* lines 87-94: goal test and best-path update; the iteration ends *)
CheckGoal ==
  /\ pc = "goal"
  /\ LET lastIndex == Len(node_list) - 1
         nNode     == Nd(node_list, lastIndex)
     IN  IF is_near_goal(nNode, goal, expand_dis)
         THEN /\ solutionSet' = solutionSet \cup {lastIndex}
              /\ IF WalkEnds(node_list, lastIndex, Len(node_list))
                 THEN LET tempPath    == get_final_course(node_list, lastIndex,
                                                          start, goal)
                          tempPathLen == get_path_len(tempPath)
                      IN  /\ IF FLess(tempPathLen, pathLen)
                             THEN path' = tempPath /\ cBest' = tempPathLen
                             ELSE UNCHANGED <<path, cBest>>
                          /\ pc' = "loop"
                          /\ i' = i + 1
                 ELSE /\ pc' = "hang"
                      /\ UNCHANGED <<path, cBest, i>>
         ELSE /\ pc' = "loop"
              /\ i' = i + 1
              /\ UNCHANGED <<solutionSet, path, cBest>>
  /\ UNCHANGED <<config, node_list, pathLen, newNode, nearInds, error>>

(* line 101: return path *)
Return ==
  /\ pc = "loop"
  /\ i >= max_iter
  /\ pc' = "done"
  /\ UNCHANGED <<config, node_list, cBest, pathLen, solutionSet, path, i,
                 newNode, nearInds, error>>

Next == SearchStart \/ Extend \/ Insert \/ Rewire \/ CheckGoal \/ Return

Spec == Init /\ [][Next]_vars

(* ----------------------------- type ------------------------------------ *)

TypeOK ==
  /\ pc \in {"constructed", "loop", "insert", "rewire", "goal", "done",
             "raised", "hang"}
  /\ i \in 0..max_iter
  /\ \A k \in 1..Len(node_list) :
        node_list[k].parent \in {None} \cup (0..(Len(node_list) - 1))

(* ------------------------- helper vocabulary --------------------------- *)

Nodes == 0..(Len(node_list) - 1)

NonRoot(k) == Nd(node_list, k).parent # None

ParentOf(nl, k) == Nd(nl, Nd(nl, k).parent)

(* the stored cost of node k is the stored cost of its parent plus the     *)
(* length of the edge between them                                          *)
CostMatchesParent(nl, k) ==
  Nd(nl, k).cost = FAdd(ParentOf(nl, k).cost,
                        line_cost(Nd(nl, k), ParentOf(nl, k)))

(* node k has been rewired: its parent is a node inserted after it *)
ForwardParent(nl, k) == Nd(nl, k).parent > k

HasChild(nl, k) == \E c \in 0..(Len(nl) - 1) : Nd(nl, c).parent = k

(* the node reached from k after j parent hops *)
RECURSIVE Ancestor(_, _, _)
Ancestor(nl, k, j) ==
  IF j = 0 THEN k ELSE Ancestor(nl, Nd(nl, k).parent, j - 1)

(* the length of the parent chain from node k to the root *)
RECURSIVE ChainLen(_, _)
ChainLen(nl, k) ==
  IF Nd(nl, k).parent = None THEN Zero
  ELSE FAdd(ChainLen(nl, Nd(nl, k).parent),
            line_cost(Nd(nl, k), ParentOf(nl, k)))

PathStep2(p, j) == Sq(p[j][1] - p[j + 1][1]) + Sq(p[j][2] - p[j + 1][2])

Stopped == pc \in {"done", "raised", "hang"}

(* the position (px, py) is in the closed disk around the centre of the    *)
(* obstacle ob whose squared radius is 1.1 * size^2                         *)
InInflatedDisk(px, py, ob) ==
  10 * (Sq(px - ob.x) + Sq(py - ob.y)) <= 11 * Sq(ob.size)

(* the points the model can place a node on *)
Positions == Lattice(min_rand, max_rand, start, goal, expand_dis)

(* the subdivided segment check from node a towards node b passes *)
SegmentFree(a, b) ==
  check_collision_extend(a, atan2(b.y - a.y, b.x - a.x), Dist2(a, b),
                         expand_dis, obstacle_list)

(* the cost of node a when it is reached through node b *)
CostThrough(a, b) == FAdd(b.cost, line_cost(a, b))

(* the point k steps of length e from a towards b, for a and b at the      *)
(* integer distance h, is outside the inflated disk of every obstacle      *)
(* (coordinates relative to the obstacle centre, multiplied by h)          *)
StepPointSafe(a, b, h, k, e, obstacleList) ==
  \A o \in 1..Len(obstacleList) :
     LET ob == obstacleList[o]
         px == h * (a.x - ob.x) + k * e * (b.x - a.x)
         py == h * (a.y - ob.y) + k * e * (b.y - a.y)
     IN  10 * (Sq(px) + Sq(py)) > 11 * Sq(h) * Sq(ob.size)

(* the position (px, py) is strictly outside the inflated disk of every   *)
(* obstacle                                                                 *)
OutsideObstacles(px, py) ==
  \A o \in 1..Len(obstacle_list) : ~InInflatedDisk(px, py, obstacle_list[o])

(* the step is the validation of a steered node (lines 69-80) *)
ValidateStep == pc = "loop" /\ pc' \in {"loop", "insert"}

(* ------------------------------- C1 ------------------------------------ *)

C2_ParentChainsReachRoot ==
  \A k \in Nodes : WalkEnds(node_list, k, Len(node_list))

C2_Witness ==
  \E k \in Nodes : /\ ForwardParent(node_list, k)
                   /\ HasChild(node_list, k)
                   /\ WalkEnds(node_list, k, Len(node_list))

(* ------------------------------- C3 ------------------------------------ *)

(* C3: the values assigned to cBest within one run never increase: a       *)
(* candidate path replaces the best path only if it is strictly shorter.   *)
C3_BestCostNonIncreasing == [][FLeq(cBest', cBest)]_vars

(* ------------------------------- C4 ------------------------------------ *)

C5_RunsWholeBudget ==
  Stopped => /\ pc = "done"
             /\ i = max_iter
             /\ (path = << >>) <=> (solutionSet = {})

(* ------------------------------- C6 ------------------------------------ *)

(* C6: the course extracted for a node starts with the goal position,      *)
(* continues with the positions of the node, its parent, its grandparent,  *)
(* ... up to the last node that has a parent, and ends with the start      *)
(* position; the walk stops exactly at the node whose parent is None.      *)
C6_CourseIsGoalFirst ==
  \A k \in Nodes :
    WalkEnds(node_list, k, Len(node_list)) =>
      LET p == get_final_course(node_list, k, start, goal)
          n == Len(p) - 2
      IN  /\ n >= 0
          /\ p[1] = <<goal.x, goal.y>>
          /\ p[Len(p)] = <<start.x, start.y>>
          /\ \A j \in 1..n :
               LET a == Ancestor(node_list, k, j - 1)
               IN  /\ Nd(node_list, a).parent # None
                   /\ p[j + 1] = <<Nd(node_list, a).x, Nd(node_list, a).y>>
          /\ Nd(node_list, Ancestor(node_list, k, n)).parent = None

C6_Witness ==
  /\ pc = "loop"
  /\ Len(node_list) >= 2
  /\ is_near_goal(Nd(node_list, Len(node_list) - 1), goal, expand_dis)
  /\ path = get_final_course(node_list, Len(node_list) - 1, start, goal)
  /\ Len(path) >= 5

(* ------------------------------- C7 ------------------------------------ *)

(* C7 as stated: every parent handle is the index of a node inserted       *)
(* strictly earlier, also after rewire.                                     *)
C7_ParentInsertedEarlier ==
  \A k \in Nodes : NonRoot(k) => Nd(node_list, k).parent < k

(* C7: the parent handle a node receives at insertion is the index of a    *)
(* node inserted strictly earlier; afterwards a parent handle changes only *)
(* in the rewire step, and then to the index of the node just inserted,    *)
(* which is a forward reference.                                            *)
C7_ParentEarlierUnlessRewired ==
  [][ /\ \A k \in 0..(Len(node_list') - 1) :
           (k >= Len(node_list) /\ Nd(node_list', k).parent # None)
             => Nd(node_list', k).parent \in 0..(k - 1)
      /\ \A k \in Nodes :
           Nd(node_list', k).parent # Nd(node_list, k).parent
             => /\ pc = "rewire"
                /\ Nd(node_list', k).parent = Len(node_list) - 1
                /\ Nd(node_list', k).parent > k ]_vars

C7_Witness ==
  /\ pc = "done"
  /\ \E k \in Nodes : NonRoot(k) /\ ForwardParent(node_list, k)

(* ------------------------------- C8 ------------------------------------ *)

(* C8: an invalid configuration is rejected by the constructor, and no     *)
(* arithmetic failure occurs during the search.                             *)
C8_InvalidConfigRejected ==
  /\ ~ValidConfig => pc = "rejected"
  /\ error = "none"

(* ------------------------------- C9 ------------------------------------ *)

(* C9: the root keeps parent None and cost 0 throughout the run, also      *)
(* when it is in the near-node set of a new node.                          *)
C9_RootUntouched ==
  Len(node_list) >= 1 =>
     /\ Nd(node_list, 0).parent = None
     /\ Nd(node_list, 0).cost = Zero
     /\ Nd(node_list, 0).x = start.x
     /\ Nd(node_list, 0).y = start.y

C9_Witness ==
  /\ pc = "goal"
  /\ 0 \in Range(nearInds)
  /\ Nd(node_list, Len(node_list) - 1).parent # 0
  /\ \E k \in Nodes : ForwardParent(node_list, k)

(* ------------------------------- C10 ----------------------------------- *)

(* C10: the stored cost of a node in node_list never increases; cost and   *)
(* parent of such a node change only in the rewire step, and then the cost *)
(* becomes strictly smaller.                                                *)
C10_CostNeverIncreases ==
  [][ \A k \in Nodes :
        /\ FLeq(Nd(node_list', k).cost, Nd(node_list, k).cost)
        /\ ( \/ Nd(node_list', k).cost # Nd(node_list, k).cost
             \/ Nd(node_list', k).parent # Nd(node_list, k).parent )
           => /\ pc = "rewire"
              /\ FLess(Nd(node_list', k).cost, Nd(node_list, k).cost) ]_vars

C10_Witness ==
  /\ pc = "loop"
  /\ i < max_iter
  /\ \E k \in Nodes : /\ ForwardParent(node_list, k)
                      /\ CostMatchesParent(node_list, k)

(* ------------------------------- C11 ----------------------------------- *)

(* C11: collision_check reports a collision (False) for a position exactly *)
(* when the position is in the inflated disk of at least one obstacle, and *)
(* safe (True) otherwise, in particular for an empty obstacle list (the    *)
(* obstacle list is fixed at construction, so the positions are compared   *)
(* once per run); the search accepts a steered node exactly when it is     *)
(* outside every disk.                                                      *)
C11_CollisionExactlyInInflatedDisk ==
  [][ /\ pc = "constructed" =>
           \A pt \in Positions :
              collision_check(Node(pt[1], pt[2]), obstacle_list)
                <=> ~\E o \in 1..Len(obstacle_list) :
                        InInflatedDisk(pt[1], pt[2], obstacle_list[o])
      /\ ValidateStep =>
           ( pc' = "insert"
               <=> ~\E o \in 1..Len(obstacle_list) :
                       InInflatedDisk(newNode'.x, newNode'.y, obstacle_list[o]) )
    ]_vars

(* a steered node was rejected that is in the margin of an obstacle, not   *)
(* in the obstacle itself                                                   *)
C11_Witness ==
  /\ pc = "loop"
  /\ i >= 1
  /\ \E o \in 1..Len(obstacle_list) :
        /\ InInflatedDisk(newNode.x, newNode.y, obstacle_list[o])
        /\ Dist2(newNode, obstacle_list[o]) > Sq(obstacle_list[o].size)

(* ------------------------------- C12 ----------------------------------- *)

(* C12: the near indices computed for a new node are exactly the indices   *)
(* of the nodes of the tree before the insertion whose squared distance to *)
(* the new node is at most r^2, r = 50 * sqrt(ln(n) / n), each index once, *)
(* also when several tree nodes are equally far from the new node.         *)
C12_NearIndsExact ==
  pc = "rewire" =>
     LET n == Len(node_list) - 1
     IN  /\ Range(nearInds) =
               {k \in 0..(n - 1) :
                  Dist2(Nd(node_list, k), newNode) <= NearRadiusSq[n]}
         /\ \A s, t \in 1..Len(nearInds) : s # t => nearInds[s] # nearInds[t]

(* ------------------------------- C13 ----------------------------------- *)

(* C13: the rewire step reassigns a near node if and only if the cost of   *)
(* the new node plus the distance between them is strictly less than the   *)
(* near node's cost and the subdivided segment check between them passes;  *)
(* a reassigned near node gets the index of the new node (the last index   *)
(* of node_list) as parent and that sum as cost.                           *)
C13_RewireIffCheaperAndFree ==
  [][ pc = "rewire" =>
        LET last == Len(node_list) - 1
            nw   == Nd(node_list, last)
        IN  \A k \in Range(nearInds) :
               LET near == Nd(node_list, k)
               IN  IF FLess(CostThrough(near, nw), near.cost)
                      /\ SegmentFree(near, nw)
                   THEN /\ Nd(node_list', k).parent = last
                        /\ Nd(node_list', k).cost = CostThrough(near, nw)
                   ELSE /\ Nd(node_list', k).parent = near.parent
                        /\ Nd(node_list', k).cost = near.cost ]_vars

(* a rewire pass has reassigned one near node and has left another one     *)
(* that would have become cheaper, because its segment check failed        *)
C13_Witness ==
  /\ pc = "goal"
  /\ LET last == Len(node_list) - 1
         nw   == Nd(node_list, last)
     IN  /\ \E k \in Range(nearInds) : Nd(node_list, k).parent = last
         /\ \E k \in Range(nearInds) :
               /\ Nd(node_list, k).parent # last
               /\ FLess(CostThrough(Nd(node_list, k), nw), Nd(node_list, k).cost)
               /\ ~SegmentFree(Nd(node_list, k), nw)

(* ------------------------------- C14 ----------------------------------- *)

(* C14: no step removes or reorders nodes or moves a node of node_list;    *)
(* the rewire step leaves cost and parent of every node outside the near   *)
(* set unchanged, and it leaves the stored cost of every child of a        *)
(* reassigned node unchanged unless that child is reassigned itself.       *)
C14_RewireIsLocal ==
  [][ /\ Len(node_list') \in {Len(node_list), Len(node_list) + 1}
      /\ \A k \in Nodes :
           /\ Nd(node_list', k).x = Nd(node_list, k).x
           /\ Nd(node_list', k).y = Nd(node_list, k).y
      /\ pc = "rewire" =>
           /\ \A k \in Nodes \ Range(nearInds) :
                 Nd(node_list', k) = Nd(node_list, k)
           /\ \A k, c \in Nodes :
                 ( /\ Nd(node_list', k) # Nd(node_list, k)
                   /\ Nd(node_list, c).parent = k
                   /\ Nd(node_list', c).parent = k )
                 => Nd(node_list', c).cost = Nd(node_list, c).cost ]_vars

(* a rewire pass has lowered the cost of a node that has a child, the      *)
(* child's stored cost no longer matches, and some older node was outside  *)
(* the near set                                                             *)
C14_Witness ==
  /\ pc = "goal"
  /\ \E k \in Range(nearInds) :
        /\ Nd(node_list, k).parent = Len(node_list) - 1
        /\ \E c \in Nodes :
              /\ Nd(node_list, c).parent = k
              /\ ~CostMatchesParent(node_list, c)
  /\ \E m \in Nodes \ Range(nearInds) : m < Len(node_list) - 1

(* ------------------------------- C15 ----------------------------------- *)

(* C15: the insert step gives the new node the parent and cost of the      *)
(* candidate of nearInds that minimises candidate.cost + distance among    *)
(* the candidates whose segment to the new node passes the check, the      *)
(* first such candidate in nearInds on ties; when nearInds is empty or no  *)
(* candidate passes, the new node keeps the parent and cost from steering. *)
C15_ChooseParentMinimal ==
  [][ pc = "insert" =>
        LET cands   == nearInds'
            chosen  == Nd(node_list', Len(node_list))
            cand(t) == Nd(node_list, cands[t])
            passing == {t \in 1..Len(cands) : SegmentFree(cand(t), newNode)}
        IN  /\ chosen = newNode'
            /\ chosen.x = newNode.x /\ chosen.y = newNode.y
            /\ IF passing = {}
               THEN chosen.parent = newNode.parent /\ chosen.cost = newNode.cost
               ELSE \E t \in passing :
                      /\ \A u \in passing :
                            /\ FLeq(CostThrough(newNode, cand(t)),
                                    CostThrough(newNode, cand(u)))
                            /\ u < t => FLess(CostThrough(newNode, cand(t)),
                                              CostThrough(newNode, cand(u)))
                      /\ chosen.parent = cands[t]
                      /\ chosen.cost = CostThrough(newNode, cand(t)) ]_vars

(* a node was inserted for which two different candidates were equally     *)
(* cheap and a cheaper candidate was blocked                               *)
C15_Witness ==
  /\ pc = "rewire"
  /\ \E t, u \in 1..Len(nearInds) :
        /\ t < u
        /\ nearInds[t] # nearInds[u]
        /\ newNode.parent = nearInds[t]
        /\ SegmentFree(Nd(node_list, nearInds[u]), newNode)
        /\ CostThrough(newNode, Nd(node_list, nearInds[u])) = newNode.cost
  /\ \E t \in 1..Len(nearInds) :
        /\ ~SegmentFree(Nd(node_list, nearInds[t]), newNode)
        /\ FLess(CostThrough(newNode, Nd(node_list, nearInds[t])),
                 newNode.cost)

(* ------------------------------- C16 ----------------------------------- *)

(* C16: check_collision_extend from a node over the length d tests the     *)
(* floor(d / expand_dis) points at 1, 2, ... step lengths from the node    *)
(* and passes exactly when all of them are safe; for d shorter than one    *)
(* step it tests nothing and passes whatever the obstacles are.  The       *)
(* segments compared are those between the positions of the model (once    *)
(* per run), the test points being computed for the segments of integer    *)
(* length.                                                                  *)
C16_SegmentTestsFloorSteps ==
  [][ (pc = "constructed" /\ expand_dis > 0) =>
        \A pa, pb \in Positions :
           LET a == Node(pa[1], pa[2])
               b == Node(pb[1], pb[2])
               D == Dist2(a, b)
               r == check_collision_extend(a, atan2(b.y - a.y, b.x - a.x), D,
                                           expand_dis, obstacle_list)
           IN  /\ D < Sq(expand_dis) => r
               /\ \A h \in 1..(2 * (MaxRand + 6)) :
                     Sq(h) = D =>
                       ( r <=> \A k \in 1..(h \div expand_dis) :
                                  StepPointSafe(a, b, h, k, expand_dis,
                                                obstacle_list) ) ]_vars

(* the insert step has checked a segment of zero length, which passes      *)
(* without a test, and a segment of several steps that is blocked only     *)
(* after its first step                                                    *)
C16_Witness ==
  /\ pc = "rewire"
  /\ \E t \in 1..Len(nearInds) :
        Dist2(Nd(node_list, nearInds[t]), newNode) < Sq(expand_dis)
  /\ \E t \in 1..Len(nearInds) :
        LET c == Nd(node_list, nearInds[t])
        IN  /\ Dist2(c, newNode) >= 4 * Sq(expand_dis)
            /\ ~SegmentFree(c, newNode)
            /\ StepSafe(c, atan2(newNode.y - c.y, newNode.x - c.x), 1,
                        expand_dis, obstacle_list)

(* ------------------------------- C17 ----------------------------------- *)

(* C17: in uninformed mode the share of the equally likely outcomes of the *)
(* integer draw of sample_free_space for which the goal is returned        *)
(* whatever the uniform draws are is goal_sample_rate / 100, so that a     *)
(* rate of 0 never yields the goal through the bias branch.                *)
C17_GoalShareIsRate ==
  (pc = "loop" /\ cBest = Inf) =>
     LET goalDraws ==
           {draw \in IntegerDraws :
              \A ux, uy \in Between(min_rand, max_rand) :
                 sample_free_space(draw, ux, uy, goal_sample_rate, goal)
                   = <<goal.x, goal.y>>}
     IN  100 * Cardinality(goalDraws)
           = goal_sample_rate * Cardinality(IntegerDraws)

(* ------------------------------- C18 ----------------------------------- *)

C19_TreeOutsideObstacles ==
  /\ pc = "insert" =>
        /\ OutsideObstacles(newNode.x, newNode.y)
        /\ SegmentFree(Nd(node_list, newNode.parent), newNode)
  /\ Len(node_list) <= 1 + i + (IF pc \in {"rewire", "goal"} THEN 1 ELSE 0)
  /\ \A k \in Nodes :
        NonRoot(k) => OutsideObstacles(Nd(node_list, k).x, Nd(node_list, k).y)
  /\ \A j \in 2..(Len(path) - 1) : OutsideObstacles(path[j][1], path[j][2])

(* the search has returned after an iteration whose steered node was in an *)
(* obstacle disk and was not appended, and after others that appended      *)
C19_Witness ==
  /\ pc = "done"
  /\ Len(node_list) \in 2..max_iter
  /\ ~OutsideObstacles(newNode.x, newNode.y)

(* ------------------------------- C20 ----------------------------------- *)

(* C20: whenever cBest is finite it is at least cMin, the straight-line    *)
(* distance from start to goal, so that in a run with start different from *)
(* goal the difference cBest^2 - cMin^2 is never negative and the square   *)
(* root informed_sample takes of it never fails.                            *)
C20_BestCostAtLeastDirect ==
  start # goal =>
     /\ FLess(cBest, Inf) => FLeq(cMin, cBest)
     /\ ~SqrtDomainError(cBest, cMin)
     /\ error # "ValueError"

====
